---- MODULE Spec2Model ----
(***************************************************************************)
(* World streaming core of protoverse: the world number allocator          *)
(* (worldno.js), the world registry (world-state.js), the grid mapper      *)
(* (coordinate-transform.js) and the loader / crossing / flush protocol    *)
(* of main.js.  Every async call chain of main.js is a task; an action is  *)
(* the code that runs between two awaits of one task.                      *)
(***************************************************************************)
EXTENDS Integers, Sequences, FiniteSets, TLC

\* ------------------------------------------------------------------ bounds
MaxCross == 1      \* crossings a run may start
MaxFail == 1       \* fetches / asset loads that may fail in a run
MaxOps == 4        \* allocator calls in an allocator-only run
MaxRel == 3        \* largest world number an allocator-only run releases
MantBits == 12     \* significant bits of a Number in the model (53 in a double)

\* ------------------------------------------------------------- constants
NULL == "null"
Urls == {"A", "B", "C", "D"}
rootworld == "A"
xGridSize == 256
yGridSize == 256
zGridSize == 256
numXGrids == 16
numZGrids == 16
MaxTasks == MaxCross + 1
Origin == <<0, 0, 0>>

\* ----------------------------------------------------------- grid mapper
\* A coordinate is a JavaScript Number.  The model keeps the binary
\* floating-point format but with MantBits significant bits instead of 53:
\* a coordinate is an integer count of units of 2^-FracBits, and the format
\* holds every count of at most MantBits significant bits.  FracBits is
\* chosen so that one unit is the spacing of the format just below the cell
\* size 256 (as 2^-45 is for a double).
RECURSIVE Pow2(_), BitLen(_)
Pow2(n) == IF n <= 0 THEN 1 ELSE 2 * Pow2(n - 1)
BitLen(n) == IF n = 0 THEN 0 ELSE 1 + BitLen(n \div 2)
Abs(v) == IF v < 0 THEN 0 - v ELSE v
FracBits == MantBits - 8
Unit == Pow2(FracBits)

\* the result of an arithmetic operation whose exact value is v: v rounded
\* to the nearest value of the format, ties to the even one
RoundF(v) ==
    LET a == Abs(v)
        q == Pow2(BitLen(a) - MantBits)
        lo == (a \div q) * q
        r == a - lo
        m == IF 2 * r < q THEN lo
             ELSE IF 2 * r > q THEN lo + q
             ELSE IF (lo \div q) % 2 = 0 THEN lo ELSE lo + q
    IN IF v < 0 THEN 0 - m ELSE m

\* mutant of worldToUniverse: the layer is left out
worldToUniverseFlat(position, worldno) ==
    << RoundF(position[1] + (worldno % numXGrids) * xGridSize * Unit),
       position[2],
       RoundF(position[3] + ((worldno \div numXGrids) % numZGrids) * zGridSize * Unit) >>

\* lines 162-164 on the coordinates of vec
worldToUniverse(position, worldno) ==
    << RoundF(position[1] + (worldno % numXGrids) * xGridSize * Unit),
       RoundF(position[2] + (worldno \div (numXGrids * numZGrids)) * yGridSize * Unit),
       RoundF(position[3] + ((worldno \div numXGrids) % numZGrids) * zGridSize * Unit) >>

\* mutant of universeToWorld: the row and the layer are taken for each other
universeToWorldSwapped(position, worldno) ==
    << RoundF(position[1] - (worldno % numXGrids) * xGridSize * Unit),
       RoundF(position[2] - ((worldno \div numXGrids) % numZGrids) * zGridSize * Unit),
       RoundF(position[3] - (worldno \div (numXGrids * numZGrids)) * yGridSize * Unit) >>

\* lines 174-176 on the coordinates of vec
universeToWorld(position, worldno) ==
    << RoundF(position[1] - (worldno % numXGrids) * xGridSize * Unit),
       RoundF(position[2] - (worldno \div (numXGrids * numZGrids)) * yGridSize * Unit),
       RoundF(position[3] - ((worldno \div numXGrids) % numZGrids) * zGridSize * Unit) >>

\* The functions on Vector3 objects: V is the heap of vectors, position
\* the object passed; lines 158-160 clone it (or build a vector from the
\* array), the arithmetic is done on the clone, which is returned.
worldToUniverseOn(V, position, worldno) ==
    [V |-> Append(V, worldToUniverse(V[position], worldno)), vec |-> Len(V) + 1]

universeToWorldOn(V, position, worldno) ==
    [V |-> Append(V, universeToWorld(V[position], worldno)), vec |-> Len(V) + 1]

\* ------------------------------------------------------- world documents
\* A portal descriptor of a world.json: destination url, local start
\* position, destination-local position.
PD(u, s, d) == [url |-> u, start |-> s, dest |-> d]
P1 == <<1, 0, 2>>
P2 == <<3, 1, 4>>
NoPortals == [u \in Urls |-> << >>]

\* A -> B, B -> A and C, C -> B
ChainGraph ==
    [NoPortals EXCEPT !["A"] = << PD("B", P1, P2) >>,
                      !["B"] = << PD("A", P2, P1), PD("C", P1, P2) >>,
                      !["C"] = << PD("B", P2, P1) >>]
\* A -> B, C and D; B -> A
StarGraph ==
    [NoPortals EXCEPT !["A"] = << PD("B", P1, P2), PD("C", P2, P2), PD("D", P1, P1) >>,
                      !["B"] = << PD("A", P2, P1) >>]
\* A -> B and C; B -> A, C and D
TriGraph ==
    [NoPortals EXCEPT !["A"] = << PD("B", P1, P2), PD("C", P2, P2) >>,
                      !["B"] = << PD("A", P2, P1), PD("C", P1, P1), PD("D", P2, P2) >>]
\* two portals of A name B
TwinGraph ==
    [NoPortals EXCEPT !["A"] = << PD("B", P1, P2), PD("B", P2, P2) >>,
                      !["B"] = << PD("A", P2, P1), PD("C", P1, P1) >>]
\* A has a portal to itself
SelfGraph ==
    [NoPortals EXCEPT !["A"] = << PD("A", P1, P2), PD("B", P2, P2) >>,
                      !["B"] = << PD("A", P2, P1) >>]
Graphs == {ChainGraph, StarGraph, TriGraph, TwinGraph, SelfGraph}

\* -------------------------------------------------------------- helpers
Min(S) == CHOOSE x \in S : \A y \in S : x <= y
RemoveAt(s, k) == SubSeq(s, 1, k - 1) \o SubSeq(s, k + 1, Len(s))
Range(s) == {s[i] : i \in DOMAIN s}
Count(s, x) == Cardinality({i \in DOMAIN s : s[i] = x})

\* ------------------------------------------------------------ allocator
\* WorldNoAllocator: al = [nextWorldno, available]
\* mutant of NewAllocator: the counter starts at the root's number
NewAllocatorFromZero == [nextWorldno |-> 0, available |-> {}]

NewAllocator == [nextWorldno |-> 1, available |-> {}]

\* mutant of allocate: the reused number stays in the pool
allocateKeepsPooled(al) ==
    IF al.available # {}
    THEN [worldno |-> Min(al.available), al |-> al]
    ELSE [worldno |-> al.nextWorldno,
          al |-> [al EXCEPT !.nextWorldno = @ + 1]]

\* mutant of allocate: reuses the largest pooled number
allocateLargest(al) ==
    LET m == CHOOSE x \in al.available : \A y \in al.available : x >= y
    IN IF al.available # {}
       THEN [worldno |-> m, al |-> [al EXCEPT !.available = @ \ {m}]]
       ELSE [worldno |-> al.nextWorldno,
             al |-> [al EXCEPT !.nextWorldno = @ + 1]]

\* allocate(): the returned world number and the allocator afterwards
allocate(al) ==
    IF al.available # {}
    THEN [worldno |-> Min(al.available),
          al |-> [al EXCEPT !.available = @ \ {Min(al.available)}]]
    ELSE [worldno |-> al.nextWorldno,
          al |-> [al EXCEPT !.nextWorldno = @ + 1]]

\* mutant of release: the number 0 is pooled like any other
releaseZeroToo(al, worldno) == [al EXCEPT !.available = @ \cup {worldno}]

release(al, worldno) ==
    IF worldno > 0 THEN [al EXCEPT !.available = @ \cup {worldno}] ELSE al


\* ------------------------------------------------------------- registry
\* WorldState.worlds is a Map: a sequence of [url, id] in insertion order,
\* id indexing the heap of WorldStateEntry objects.
WorldStateEntry(worldData, worldno, arr, url) ==
    [data |-> worldData, mesh |-> 0, portalPairs |-> arr, worldno |-> worldno,
     url |-> url, born |-> worldno]

has(ws, worldUrl) == \E i \in DOMAIN ws : ws[i].url = worldUrl

IndexOf(ws, worldUrl) == CHOOSE i \in DOMAIN ws : ws[i].url = worldUrl

\* WorldState.get: the entry id, 0 for null
get(ws, worldUrl) == IF has(ws, worldUrl) THEN ws[IndexOf(ws, worldUrl)].id ELSE 0

\* mutant of getOrCreate: an existing entry is moved to the number passed
getOrCreateRehomes(H, worldUrl, worldData, worldno) ==
    IF get(H.worlds, worldUrl) # 0
    THEN [H |-> [H EXCEPT !.entries[get(H.worlds, worldUrl)].worldno = worldno],
          state |-> get(H.worlds, worldUrl)]
    ELSE [H |-> [H EXCEPT
                   !.arrays = Append(@, << >>),
                   !.entries = Append(@, WorldStateEntry(worldData, worldno,
                                                         Len(H.arrays) + 1, worldUrl)),
                   !.worlds = Append(@, [url |-> worldUrl, id |-> Len(H.entries) + 1])],
          state |-> Len(H.entries) + 1]

\* WorldState.getOrCreate on the heap H = [worlds, entries, arrays, ...]:
\* the heap afterwards and the entry returned
getOrCreate(H, worldUrl, worldData, worldno) ==
    IF get(H.worlds, worldUrl) # 0
    THEN [H |-> H, state |-> get(H.worlds, worldUrl)]
    ELSE [H |-> [H EXCEPT
                   !.arrays = Append(@, << >>),
                   !.entries = Append(@, WorldStateEntry(worldData, worldno,
                                                         Len(H.arrays) + 1, worldUrl)),
                   !.worlds = Append(@, [url |-> worldUrl, id |-> Len(H.entries) + 1])],
          state |-> Len(H.entries) + 1]

BagAdd(b, x) == IF x \in DOMAIN b THEN [b EXCEPT ![x] = @ + 1] ELSE b @@ (x :> 1)
BagCount(b, x) == IF x \in DOMAIN b THEN b[x] ELSE 0

\* A Map iterator of a suspended flush stands after fpos entries; removing
\* the entry at index k moves every iterator that has passed it.
IteratorsAfterDelete(tk, k) ==
    [t \in DOMAIN tk |->
        IF tk[t].pc = "flush" /\ tk[t].fpos >= k
        THEN [tk[t] EXCEPT !.fpos = @ - 1] ELSE tk[t]]

\* mutant of delete: releases the worldno but keeps the Map entry
deleteKeepsEntry(H, worldUrl) ==
    IF ~has(H.worlds, worldUrl) THEN H
    ELSE LET st == H.entries[get(H.worlds, worldUrl)]
         IN [H EXCEPT
               !.alloc = release(@, st.worldno),
               !.relCount = IF st.worldno > 0 THEN BagAdd(@, st.worldno) ELSE @]

\* WorldState.delete: releases the entry's worldno and removes the entry
delete(H, worldUrl) ==
    IF ~has(H.worlds, worldUrl) THEN H
    ELSE LET k == IndexOf(H.worlds, worldUrl)
             st == H.entries[H.worlds[k].id]
         IN [H EXCEPT
               !.alloc = release(@, st.worldno),
               !.relCount = IF st.worldno > 0 THEN BagAdd(@, st.worldno) ELSE @,
               !.worlds = RemoveAt(@, k),
               !.tasks = IteratorsAfterDelete(@, k)]

\* ---------------------------------------------------------- portal link
\* ProtoPortal.dispose: releases the decorations and detaches the crossing
\* callback of the pair.
dispose(lk) == [lk EXCEPT !.disposed = @ + 1]

Crossable(lk) == lk.onCross /\ lk.disposed = 0

DisposeAll(lks, arr) ==
    [l \in DOMAIN lks |->
        IF Count(arr, l) = 0 THEN lks[l]
        ELSE [dispose(lks[l]) EXCEPT !.disposed = lks[l].disposed + Count(arr, l)]]

\* ---------------------------------------------------------------- flush
\* flushPortalsAndWorlds(fromURL, destinationUrl) of task t, run from the
\* task's iterator position to its next await (updateLabelText of a kept
\* portal) or to the end of the Map.
RECURSIVE flushEntries(_, _), flushPortals(_, _, _, _, _),
          flushPortalsNoFilter(_, _, _, _, _)

\* mutant of Evicted: only the destination of the crossing is spared
EvictedUnlessDestination(worldUrl, fromURL, destinationUrl) ==
    worldUrl # destinationUrl

\* mutant of Evicted: only the world the viewer leaves is spared
EvictedUnlessSource(worldUrl, fromURL, destinationUrl) ==
    worldUrl # fromURL

\* line 100: a world that is neither end of the crossing is evicted
Evicted(worldUrl, fromURL, destinationUrl) ==
    worldUrl # fromURL /\ worldUrl # destinationUrl

\* lines 99-119 and 138: the loop over worldState.entries()
flushEntries(H, t) ==
    LET tk == H.tasks[t] IN
    IF tk.fpos >= Len(H.worlds)
    THEN [H EXCEPT !.tasks[t].pc = "fetchRoot"]
    ELSE
      LET w == H.worlds[tk.fpos + 1]
          st == H.entries[w.id]
          H1 == [H EXCEPT !.tasks[t].fpos = @ + 1]
      IN IF Evicted(w.url, tk.ffrom, tk.fto)
         THEN LET H2 == [H1 EXCEPT
                           !.links = DisposeAll(@, H.arrays[st.portalPairs]),
                           !.arrays = Append(@, << >>),
                           !.entries[w.id].portalPairs = Len(H.arrays) + 1,
                           !.entries[w.id].mesh = 0,
                           !.scene = IF st.mesh # 0 THEN @ \ {st.mesh} ELSE @]
              IN flushEntries(delete(H2, w.url), t)
         ELSE IF w.url = tk.ffrom
         THEN flushPortals(H1, t, w.id, st.portalPairs, 1)
         ELSE flushEntries(H1, t)

\* mutant of flushPortals: the list is not filtered after the loop
flushPortalsNoFilter(H, t, e, arr, i) ==
    IF i > Len(H.arrays[arr])
    THEN flushEntries(H, t)
    ELSE LET l == H.arrays[arr][i] IN
         IF H.links[l].dest # H.tasks[t].fto
         THEN flushPortalsNoFilter([H EXCEPT !.links[l] = dispose(@)], t, e, arr, i + 1)
         ELSE [H EXCEPT !.tasks[t].pc = "flush",
                        !.tasks[t].fstate = e,
                        !.tasks[t].farr = arr,
                        !.tasks[t].fidx = i]

\* lines 120-137: the loop over the portalPairs array arr of entry e, from
\* index i, and the filter that follows it
flushPortals(H, t, e, arr, i) ==
    IF i > Len(H.arrays[arr])
    THEN LET kept == SelectSeq(H.arrays[H.entries[e].portalPairs],
                               LAMBDA l : H.links[l].dest = H.tasks[t].fto)
         IN flushEntries([H EXCEPT !.arrays = Append(@, kept),
                                   !.entries[e].portalPairs = Len(H.arrays) + 1], t)
    ELSE LET l == H.arrays[arr][i] IN
         IF H.links[l].dest # H.tasks[t].fto
         THEN flushPortals([H EXCEPT !.links[l] = dispose(@)], t, e, arr, i + 1)
         ELSE [H EXCEPT !.tasks[t].pc = "flush",
                        !.tasks[t].fstate = e,
                        !.tasks[t].farr = arr,
                        !.tasks[t].fidx = i]


\* ---------------------------------------------------------------- state
VARIABLES
    docs,             \* the world.json served for each url
    currentWorldUrl,  \* main.js:21
    worlds,           \* worldState.worlds, in insertion order
    entries,          \* heap of WorldStateEntry objects
    arrays,           \* heap of portalPairs arrays
    links,            \* heap of ProtoPortal objects with their pair
    meshes,           \* heap of SplatMesh objects
    scene,            \* meshes attached to the scene
    alloc,            \* worldNoAllocator
    tasks,            \* the async call chains: initial load and crossings
    fails,            \* failed fetches so far
    allocCount,       \* history: times allocate() returned each number
    relCount,         \* history: times release() was called with each number > 0
    ops               \* history of an allocator-only run

vars == << docs, currentWorldUrl, worlds, entries, arrays, links, meshes, scene,
           alloc, tasks, fails, allocCount, relCount, ops >>

IdleTask ==
    [pc |-> "idle", url |-> NULL, fromroot |-> NULL, data |-> << >>,
     state |-> 0, cwn |-> 0, idx |-> 0, pend |-> 0, destMeshes |-> << >>,
     adj |-> 0,
     ffrom |-> NULL, fto |-> NULL, fpos |-> 0, fstate |-> 0, farr |-> 0, fidx |-> 0,
     link |-> 0, fromEntry |-> FALSE, pre |-> << >>, quiet |-> FALSE]

\* main.js:260: the module starts loadWorldAsRoot(rootworld, null), which
\* suspends in loadWorldJSON
Init ==
    /\ docs \in Graphs
    /\ currentWorldUrl = rootworld
    /\ worlds = << >>
    /\ entries = << >>
    /\ arrays = << >>
    /\ links = << >>
    /\ meshes = << >>
    /\ scene = {}
    /\ alloc = NewAllocator
    /\ tasks = [t \in 1..MaxTasks |->
                  IF t = 1 THEN [IdleTask EXCEPT !.pc = "fetchRoot", !.url = rootworld]
                  ELSE IdleTask]
    /\ fails = 0
    /\ allocCount = << >>
    /\ relCount = << >>
    /\ ops = << >>

Heap == [worlds |-> worlds, entries |-> entries, arrays |-> arrays, links |-> links,
         scene |-> scene, alloc |-> alloc, relCount |-> relCount, tasks |-> tasks]

SetHeap(H) ==
    /\ worlds' = H.worlds
    /\ entries' = H.entries
    /\ arrays' = H.arrays
    /\ links' = H.links
    /\ scene' = H.scene
    /\ alloc' = H.alloc
    /\ relCount' = H.relCount
    /\ tasks' = H.tasks

Running(t) == tasks[t].pc \notin {"idle", "done", "failed"}
Quiescent == \A t \in DOMAIN tasks : ~Running(t)

\* ------------------------------------------------------ portal creation
\* mutant of NextPortal: the portal back to fromroot is not skipped
NextPortalNoSkip(portals, fromroot, i) ==
    IF i <= Len(portals) THEN i ELSE Len(portals) + 1

\* lines 151-156: the next descriptor at or after i that is not skipped
NextPortal(portals, fromroot, i) ==
    IF \E j \in i..Len(portals) : portals[j].url # fromroot
    THEN Min({j \in i..Len(portals) : portals[j].url # fromroot})
    ELSE Len(portals) + 1

\* loadAdjacentWorlds is entered with destMeshes: its first fetch, or its end
AdjacentStart(tk) ==
    IF Len(tk.destMeshes) = 0 THEN [tk EXCEPT !.pc = "done"]
    ELSE [tk EXCEPT !.pc = "adjFetch", !.adj = 1]

\* loadPortalsFromWorlData of task tk from descriptor i to its next await:
\* lines 158-190 for the next descriptor that is not skipped (createLabel
\* suspends), or lines 216 and 244-254 when the loop is over.
\* R = [tk, links, alloc, allocCount, resident]
loadPortalsFromWorlData(R, i) ==
    LET tk == R.tk
        j == NextPortal(tk.data, tk.fromroot, i)
    IN IF j > Len(tk.data)
       THEN [R EXCEPT !.tk = IF tk.fromroot = NULL
                             THEN [tk EXCEPT !.pc = "rootMesh", !.idx = j]
                             ELSE AdjacentStart([tk EXCEPT !.idx = j])]
       ELSE LET a == allocate(R.alloc)
                pd == tk.data[j]
                adjustedStartPos == worldToUniverse(pd.start, tk.cwn)
                adjustedDestPos == worldToUniverse(pd.dest, a.worldno)
                protoPortal ==
                    [owner |-> tk.url, dest |-> pd.url, worldno |-> a.worldno,
                     entryPos |-> adjustedStartPos, exitPos |-> adjustedDestPos,
                     onCross |-> FALSE, disposed |-> 0,
                     task |-> R.t, idx |-> j, resident |-> pd.url \in R.resident]
            IN [R EXCEPT
                  !.alloc = a.al,
                  !.allocCount = BagAdd(@, a.worldno),
                  !.links = Append(@, protoPortal),
                  !.tk = [tk EXCEPT !.pc = "label", !.idx = j,
                                    !.pend = Len(R.links) + 1,
                                    !.data[j].dest = adjustedDestPos]]

Registered == {worlds[i].url : i \in DOMAIN worlds}

\* ------------------------------------------------------------- actions
\* loadWorldAsRoot lines 237-242 and the start of loadPortalsFromWorlData:
\* the root document arrives
FetchRoot(t) ==
    /\ tasks[t].pc = "fetchRoot"
    /\ LET tk == tasks[t]
           g == getOrCreate(Heap, tk.url, docs[tk.url], 0)
           st == g.H.entries[g.state]
           R == loadPortalsFromWorlData(
                    [tk |-> [tk EXCEPT !.data = docs[tk.url], !.state = g.state,
                                       !.cwn = st.worldno],
                     links |-> links, alloc |-> alloc, allocCount |-> allocCount,
                     t |-> t, resident |-> {g.H.worlds[i].url : i \in DOMAIN g.H.worlds}], 1)
       IN /\ worlds' = g.H.worlds
          /\ entries' = g.H.entries
          /\ arrays' = g.H.arrays
          /\ links' = R.links
          /\ alloc' = R.alloc
          /\ allocCount' = R.allocCount
          /\ tasks' = [tasks EXCEPT ![t] = R.tk]
    /\ UNCHANGED << docs, currentWorldUrl, meshes, scene, fails, relCount, ops >>

\* a fetch, response.json() or mesh.initialized rejects: the exception
\* leaves loadWorldAsRoot and the task ends
FetchFails(t) ==
    /\ tasks[t].pc \in {"fetchRoot", "rootMesh", "adjFetch"}
    /\ fails < MaxFail
    /\ fails' = fails + 1
    /\ tasks' = [tasks EXCEPT ![t].pc = "failed"]
    /\ UNCHANGED << docs, currentWorldUrl, worlds, entries, arrays, links, meshes,
                    scene, alloc, allocCount, relCount, ops >>

\* lines 190-215 after createLabel, then the loop goes on
Label(t) ==
    /\ tasks[t].pc = "label"
    /\ LET tk == tasks[t]
           l == tk.pend
           arr == entries[tk.state].portalPairs
           R == loadPortalsFromWorlData(
                    [tk |-> [tk EXCEPT !.destMeshes =
                                 Append(@, << links[l].dest, links[l].worldno >>),
                                       !.pend = 0],
                     links |-> [links EXCEPT ![l].onCross = TRUE],
                     alloc |-> alloc, allocCount |-> allocCount,
                     t |-> t, resident |-> Registered], tk.idx + 1)
       IN /\ arrays' = [arrays EXCEPT ![arr] = Append(@, l)]
          /\ links' = R.links
          /\ alloc' = R.alloc
          /\ allocCount' = R.allocCount
          /\ tasks' = [tasks EXCEPT ![t] = R.tk]
    /\ UNCHANGED << docs, currentWorldUrl, worlds, entries, meshes, scene, fails,
                    relCount, ops >>

\* loadSplatandSetPosition lines 69-85
loadSplatandSetPosition(url, position, world) ==
    [url |-> url,
     position |-> IF world # 0 THEN worldToUniverse(position, world) ELSE position,
     world |-> world,
     second |-> \E i \in DOMAIN worlds :
                    worlds[i].url = url /\ entries[worlds[i].id].mesh # 0]

\* lines 246-247: the root splat is initialized, added to the scene and
\* stored in the state held since line 239; then loadAdjacentWorlds starts
RootMesh(t) ==
    /\ tasks[t].pc = "rootMesh"
    /\ meshes' = Append(meshes, loadSplatandSetPosition(tasks[t].url, Origin, 0))
    /\ scene' = scene \cup {Len(meshes) + 1}
    /\ entries' = [entries EXCEPT ![tasks[t].state].mesh = Len(meshes) + 1]
    /\ tasks' = [tasks EXCEPT ![t] = AdjacentStart(@)]
    /\ UNCHANGED << docs, currentWorldUrl, worlds, arrays, links, alloc,
                    fails, allocCount, relCount, ops >>

\* mutant of loadAdjacentWorlds: the neighbour is registered like a root,
\* without its world number
loadAdjacentWorldsAtZero(H, destMesh, worldData, mesh) ==
    LET g == getOrCreate(H, destMesh[1], worldData, 0)
    IN [g.H EXCEPT !.entries[g.state].mesh = mesh]

\* lines 228-230
loadAdjacentWorlds(H, destMesh, worldData, mesh) ==
    LET g == getOrCreate(H, destMesh[1], worldData, destMesh[2])
    IN [g.H EXCEPT !.entries[g.state].mesh = mesh,
                   !.entries[g.state].worldno = destMesh[2]]

\* lines 223-230: a neighbour's document and splat arrive, the splat is
\* added to the scene and stored; then the next neighbour is fetched
AdjFetch(t) ==
    /\ tasks[t].pc = "adjFetch"
    /\ LET tk == tasks[t]
           destMesh == tk.destMeshes[tk.adj]
           mesh == Len(meshes) + 1
           H == loadAdjacentWorlds([Heap EXCEPT !.scene = @ \cup {mesh}],
                                   destMesh, docs[destMesh[1]], mesh)
       IN /\ meshes' = Append(meshes,
                          loadSplatandSetPosition(destMesh[1], Origin, destMesh[2]))
          /\ SetHeap([H EXCEPT !.tasks[t] =
                      IF tk.adj < Len(tk.destMeshes)
                      THEN [tk EXCEPT !.adj = @ + 1]
                      ELSE [tk EXCEPT !.pc = "done"]])
    /\ UNCHANGED << docs, currentWorldUrl, fails, allocCount, ops >>

\* history: what the Registry holds; a crossing that starts with no load in
\* flight records it in tasks[t].pre
Snapshot == [i \in DOMAIN worlds |->
                [url |-> worlds[i].url, worldno |-> entries[worlds[i].id].worldno,
                 data |-> entries[worlds[i].id].data,
                 mesh |-> entries[worlds[i].id].mesh,
                 list |-> arrays[entries[worlds[i].id].portalPairs]]]

\* mutant of Cross: the callback does not update currentWorldUrl
CrossKeepsRoot(l, fromEntry) ==
    /\ Crossable(links[l])
    /\ currentWorldUrl = (IF fromEntry THEN links[l].owner ELSE links[l].dest)
    /\ \E t \in DOMAIN tasks :
        /\ tasks[t].pc = "idle"
        /\ \A t2 \in 1..(t - 1) : tasks[t2].pc # "idle"
        /\ LET newRoot == IF fromEntry THEN links[l].dest ELSE links[l].owner
               oldRoot == IF fromEntry THEN links[l].owner ELSE links[l].dest
               tk == [IdleTask EXCEPT
                        !.pc = "flush", !.url = newRoot, !.fromroot = oldRoot,
                        !.ffrom = oldRoot, !.fto = newRoot, !.fpos = 0,
                        !.link = l, !.fromEntry = fromEntry,
                        !.pre = IF Quiescent THEN Snapshot ELSE << >>,
                        !.quiet = Quiescent]
           IN /\ currentWorldUrl' = currentWorldUrl
              /\ SetHeap(flushEntries([Heap EXCEPT !.tasks[t] = tk], t))
    /\ UNCHANGED << docs, meshes, fails, allocCount, ops >>

\* pair.onCross, lines 195-208, up to the first await of the flush.  The
\* camera passes the entry side of a pair in the world it is in, and the
\* exit side of a pair that leads to the world it is in.
Cross(l, fromEntry) ==
    /\ Crossable(links[l])
    /\ currentWorldUrl = (IF fromEntry THEN links[l].owner ELSE links[l].dest)
    /\ \E t \in DOMAIN tasks :
        /\ tasks[t].pc = "idle"
        /\ \A t2 \in 1..(t - 1) : tasks[t2].pc # "idle"
        /\ LET newRoot == IF fromEntry THEN links[l].dest ELSE links[l].owner
               oldRoot == IF fromEntry THEN links[l].owner ELSE links[l].dest
               tk == [IdleTask EXCEPT
                        !.pc = "flush", !.url = newRoot, !.fromroot = oldRoot,
                        !.ffrom = oldRoot, !.fto = newRoot, !.fpos = 0,
                        !.link = l, !.fromEntry = fromEntry,
                        !.pre = IF Quiescent THEN Snapshot ELSE << >>,
                        !.quiet = Quiescent]
           IN /\ currentWorldUrl' = newRoot
              /\ SetHeap(flushEntries([Heap EXCEPT !.tasks[t] = tk], t))
    /\ UNCHANGED << docs, meshes, fails, allocCount, ops >>

\* updateLabelText of line 130 resolves and the flush goes on
FlushResume(t) ==
    /\ tasks[t].pc = "flush"
    /\ SetHeap(flushPortals(Heap, t, tasks[t].fstate, tasks[t].farr, tasks[t].fidx + 1))
    /\ UNCHANGED << docs, currentWorldUrl, meshes, fails, allocCount, ops >>

Next ==
    \/ \E t \in DOMAIN tasks : FetchRoot(t)
    \/ \E t \in DOMAIN tasks : FetchFails(t)
    \/ \E t \in DOMAIN tasks : Label(t)
    \/ \E t \in DOMAIN tasks : RootMesh(t)
    \/ \E t \in DOMAIN tasks : AdjFetch(t)
    \/ \E l \in DOMAIN links : \E fromEntry \in BOOLEAN : Cross(l, fromEntry)
    \/ \E t \in DOMAIN tasks : FlushResume(t)

Spec == Init /\ [][Next]_vars

TypeOK ==
    /\ currentWorldUrl \in Urls
    /\ \A i \in DOMAIN worlds : worlds[i].id \in DOMAIN entries
    /\ \A t \in DOMAIN tasks : tasks[t].pc \in
          {"idle", "flush", "fetchRoot", "label", "rootMesh", "adjFetch", "done", "failed"}


\* ------------------------------------------- allocator-only specification
\* Any sequence of at most MaxOps calls of allocate() and release(w) on a
\* new WorldNoAllocator; ops records the calls and what allocate returned.
InitAlloc ==
    /\ docs = ChainGraph
    /\ currentWorldUrl = rootworld
    /\ worlds = << >>
    /\ entries = << >>
    /\ arrays = << >>
    /\ links = << >>
    /\ meshes = << >>
    /\ scene = {}
    /\ alloc = NewAllocator
    /\ tasks = [t \in 1..MaxTasks |-> IdleTask]
    /\ fails = 0
    /\ allocCount = << >>
    /\ relCount = << >>
    /\ ops = << >>

Allocate ==
    /\ Len(ops) < MaxOps
    /\ alloc' = allocate(alloc).al
    /\ ops' = Append(ops, [op |-> "allocate", worldno |-> allocate(alloc).worldno])
    /\ UNCHANGED << docs, currentWorldUrl, worlds, entries, arrays, links, meshes,
                    scene, tasks, fails, allocCount, relCount >>

Release(w) ==
    /\ Len(ops) < MaxOps
    /\ alloc' = release(alloc, w)
    /\ ops' = Append(ops, [op |-> "release", worldno |-> w])
    /\ UNCHANGED << docs, currentWorldUrl, worlds, entries, arrays, links, meshes,
                    scene, tasks, fails, allocCount, relCount >>

NextAlloc ==
    \/ Allocate
    \/ \E w \in 0..MaxRel : Release(w)

SpecAlloc == InitAlloc /\ [][NextAlloc]_vars


\* -------------------------------------------- registry-only specification
\* Any sequence of at most MaxOps calls on a new WorldState and a new
\* WorldNoAllocator, made the way main.js makes them: getOrCreate(url,
\* data, 0) for a root, allocate() and getOrCreate(url, data, worldno) for a
\* neighbour, delete(url), and release(0).  ops records the calls.
RegUrls == {"A", "B"}
RegDocs == {ChainGraph[u] : u \in RegUrls}

\* main.js:239 (and 145): worldState.getOrCreate(url, worldData, 0)
RegRoot(u, d) ==
    /\ Len(ops) < MaxOps
    /\ LET g == getOrCreate(Heap, u, d, 0)
       IN /\ SetHeap(g.H)
          /\ ops' = Append(ops, [op |-> "getOrCreate", url |-> u, data |-> d,
                                 worldno |-> 0, existed |-> has(worlds, u),
                                 state |-> g.state])
    /\ UNCHANGED << docs, currentWorldUrl, meshes, fails, allocCount >>

\* main.js:159 and 228: worldNoAllocator.allocate(), then
\* worldState.getOrCreate(destWorldUrl, destWorldData, destMesh[1])
RegNeighbour(u, d) ==
    /\ Len(ops) < MaxOps
    /\ LET a == allocate(alloc)
           g == getOrCreate([Heap EXCEPT !.alloc = a.al], u, d, a.worldno)
       IN /\ SetHeap(g.H)
          /\ allocCount' = BagAdd(allocCount, a.worldno)
          /\ ops' = Append(ops, [op |-> "getOrCreate", url |-> u, data |-> d,
                                 worldno |-> a.worldno, existed |-> has(worlds, u),
                                 state |-> g.state])
    /\ UNCHANGED << docs, currentWorldUrl, meshes, fails >>

\* main.js:119: worldState.delete(worldUrl)
RegDelete(u) ==
    /\ Len(ops) < MaxOps
    /\ SetHeap(delete(Heap, u))
    /\ ops' = Append(ops, [op |-> "delete", url |-> u, existed |-> has(worlds, u),
                           worldno |-> IF has(worlds, u)
                                       THEN entries[get(worlds, u)].worldno ELSE 0])
    /\ UNCHANGED << docs, currentWorldUrl, meshes, fails, allocCount >>

\* main.js:211 and 229/247: a caller that holds the entry of u pushes a
\* portal to its portalPairs and stores a mesh in it
RegStore(u) ==
    /\ Len(ops) < MaxOps
    /\ has(worlds, u)
    /\ LET st == entries[get(worlds, u)]
       IN /\ entries' = [entries EXCEPT ![get(worlds, u)].mesh = Len(ops) + 1]
          /\ arrays' = [arrays EXCEPT ![st.portalPairs] = Append(@, Len(ops) + 1)]
    /\ ops' = Append(ops, [op |-> "store", url |-> u])
    /\ UNCHANGED << docs, currentWorldUrl, worlds, links, meshes, scene, alloc,
                    tasks, fails, allocCount, relCount >>

NextReg ==
    \/ \E u \in RegUrls : \E d \in RegDocs : RegRoot(u, d)
    \/ \E u \in RegUrls : \E d \in RegDocs : RegNeighbour(u, d)
    \/ \E u \in RegUrls : RegDelete(u)
    \/ \E u \in RegUrls : RegStore(u)
    \/ Release(0)

SpecReg == InitAlloc /\ [][NextReg]_vars


\* ------------------------------------------------ mapper-only specification
\* worldToUniverse and then universeToWorld applied to two positions p, q
\* with two world numbers s1, s2.  ops[1] holds the inputs, ops[2] the heap
\* of vectors and the results after worldToUniverse, ops[3] after
\* universeToWorld.
MapX == {0, 1, 3 * Unit, xGridSize * Unit - 1, 0 - Unit}
MapY == {0, 1}
MapZ == {0, 2 * Unit}
MapPositions == {<< x, y, z >> : x \in MapX, y \in MapY, z \in MapZ}
MapSlots == {0, 1, 2, 16, 17, 256, 273}

InitMap ==
    /\ docs = ChainGraph
    /\ currentWorldUrl = rootworld
    /\ worlds = << >>
    /\ entries = << >>
    /\ arrays = << >>
    /\ links = << >>
    /\ meshes = << >>
    /\ scene = {}
    /\ alloc = NewAllocator
    /\ tasks = [t \in 1..MaxTasks |-> IdleTask]
    /\ fails = 0
    /\ allocCount = << >>
    /\ relCount = << >>
    /\ \E p \in MapPositions, q \in MapPositions, s1 \in MapSlots, s2 \in MapSlots :
          ops = << [op |-> "input", V |-> << p, q >>, a |-> 1, b |-> 2,
                    s1 |-> s1, s2 |-> s2] >>

ToUniverse ==
    /\ Len(ops) = 1
    /\ LET c == ops[1]
           r1 == worldToUniverseOn(c.V, c.a, c.s1)
           r2 == worldToUniverseOn(r1.V, c.b, c.s2)
       IN ops' = Append(ops, [c EXCEPT !.op = "worldToUniverse", !.V = r2.V,
                                       !.a = r1.vec, !.b = r2.vec])
    /\ UNCHANGED << docs, currentWorldUrl, worlds, entries, arrays, links, meshes,
                    scene, alloc, tasks, fails, allocCount, relCount >>

ToWorld ==
    /\ Len(ops) = 2
    /\ LET c == ops[2]
           r1 == universeToWorldOn(c.V, c.a, c.s1)
           r2 == universeToWorldOn(r1.V, c.b, c.s2)
       IN ops' = Append(ops, [c EXCEPT !.op = "universeToWorld", !.V = r2.V,
                                       !.a = r1.vec, !.b = r2.vec])
    /\ UNCHANGED << docs, currentWorldUrl, worlds, entries, arrays, links, meshes,
                    scene, alloc, tasks, fails, allocCount, relCount >>

NextMap ==
    \/ ToUniverse
    \/ ToWorld

SpecMap == InitMap /\ [][NextMap]_vars


\* ------------------------------------------- repeated-crossing specification
\* The program on one small graph, A -> B and C, with room for three
\* crossings: the viewer can go through a portal, come back through its
\* exit side and go through it again while earlier awaits are pending.
ForkGraph ==
    [NoPortals EXCEPT !["A"] = << PD("B", P1, P2), PD("C", P2, P2) >>]
DeepTasks == {1, 2, 3, 4}

InitDeep ==
    /\ docs = ForkGraph
    /\ currentWorldUrl = rootworld
    /\ worlds = << >>
    /\ entries = << >>
    /\ arrays = << >>
    /\ links = << >>
    /\ meshes = << >>
    /\ scene = {}
    /\ alloc = NewAllocator
    /\ tasks = [t \in DeepTasks |->
                  IF t = 1 THEN [IdleTask EXCEPT !.pc = "fetchRoot", !.url = rootworld]
                  ELSE IdleTask]
    /\ fails = 0
    /\ allocCount = << >>
    /\ relCount = << >>
    /\ ops = << >>

SpecDeep == InitDeep /\ [][Next]_vars


\* ======================================================================
\* Properties
\* ======================================================================
SlotOf(worldUrl) == entries[get(worlds, worldUrl)].worldno
LinksOf(worldUrl) == arrays[entries[get(worlds, worldUrl)].portalPairs]
Holders(s) == {i \in DOMAIN worlds : entries[worlds[i].id].worldno = s}
\* task t is the last one started
Latest(t) == tasks[t].pc # "idle" /\ \A t2 \in DOMAIN tasks : t2 > t => tasks[t2].pc = "idle"
PreUrls(t) == {tasks[t].pre[i].url : i \in DOMAIN tasks[t].pre}
PreSlot(t, worldUrl) ==
    tasks[t].pre[CHOOSE i \in DOMAIN tasks[t].pre : tasks[t].pre[i].url = worldUrl].worldno

\* C1: no two World States that are in the Registry at the same time hold
\* the same world number greater than 0.
C1_DistinctSlots ==
    \A i, j \in DOMAIN worlds :
        (i # j /\ entries[worlds[i].id].worldno > 0)
            => entries[worlds[i].id].worldno # entries[worlds[j].id].worldno

\* C1 witness: after a crossing has run to its end the Registry holds two
\* World States with world numbers greater than 0.
C1_Witness ==
    /\ tasks[2].pc = "done"
    /\ \E i, j \in DOMAIN worlds :
        /\ i # j
        /\ entries[worlds[i].id].worldno > 0
        /\ entries[worlds[j].id].worldno > 0

\* The pool as the calls recorded in log leave it before call i.
RECURSIVE PoolBefore(_, _)
PoolBefore(log, i) ==
    IF i = 1 THEN {}
    ELSE LET p == PoolBefore(log, i - 1)
             o == log[i - 1]
         IN IF o.op = "allocate" THEN p \ {o.worldno}
            ELSE IF o.worldno > 0 THEN p \cup {o.worldno} ELSE p

\* allocate() calls before call i that found the pool empty
FreshBefore(log, i) ==
    Cardinality({j \in 1..(i - 1) : log[j].op = "allocate" /\ PoolBefore(log, j) = {}})

\* C4: allocate() returns the smallest pooled number and removes it from
\* the pool when the pool is not empty, otherwise the next number of a
\* counter that starts at 1 and only grows; allocate, allocate, release(1),
\* allocate returns 1, 2, 1.
C4_Allocate ==
    /\ \A i \in DOMAIN ops :
          ops[i].op = "allocate" =>
             LET p == PoolBefore(ops, i)
             IN IF p # {}
                THEN ops[i].worldno \in p /\ \A x \in p : ops[i].worldno <= x
                ELSE ops[i].worldno = 1 + FreshBefore(ops, i)
    /\ alloc.available = PoolBefore(ops, Len(ops) + 1)
    /\ alloc.nextWorldno = 1 + FreshBefore(ops, Len(ops) + 1)
    /\ (/\ Len(ops) = 4
        /\ ops[1].op = "allocate" /\ ops[2].op = "allocate"
        /\ ops[3] = [op |-> "release", worldno |-> 1]
        /\ ops[4].op = "allocate")
          => (ops[1].worldno = 1 /\ ops[2].worldno = 2 /\ ops[4].worldno = 1)

\* C4 witness: the run allocate, allocate, release(1), allocate
C4_Witness ==
    ops = << [op |-> "allocate", worldno |-> 1], [op |-> "allocate", worldno |-> 2],
             [op |-> "release", worldno |-> 1], [op |-> "allocate", worldno |-> 1] >>

\* C5: once no load is pending, every world number allocate() has handed
\* out is the number of exactly one live World State or is in the pool.
C5_NoSlotLost ==
    Quiescent =>
        \A s \in DOMAIN allocCount :
            s \in alloc.available \/ Cardinality(Holders(s)) = 1

\* C6: release(s), s > 0, is called only for a number that allocate()
\* returned earlier and that is not in the pool at that moment, once per
\* deletion, and only by the Registry's delete: the pool grows only in a
\* step that removes World States.
C6_ReleaseOnce ==
    [][ /\ \A s \in DOMAIN relCount' :
              relCount'[s] > BagCount(relCount, s) =>
                 /\ s \notin alloc.available
                 /\ s \in DOMAIN allocCount
                 /\ relCount'[s] = BagCount(relCount, s) + 1
                 /\ \E i \in DOMAIN worlds :
                       /\ entries[worlds[i].id].worldno = s
                       /\ ~has(worlds', worlds[i].url)
        /\ \A s \in alloc'.available \ alloc.available :
              relCount'[s] > BagCount(relCount, s) ]_vars

\* C6 witness: a number greater than 0 has been released and is in the pool
C6_Witness ==
    \E s \in DOMAIN relCount : s > 0 /\ relCount[s] = 1 /\ s \in alloc.available


\* task t has just run a piece of its flush: the start of a crossing, or
\* the code after an updateLabelText
FlushStep(t) ==
    \/ tasks[t].pc = "idle" /\ tasks'[t].pc # "idle"
    \/ /\ tasks[t].pc = "flush"
       /\ \/ tasks'[t].pc # "flush"
          \/ tasks'[t].fidx # tasks[t].fidx
          \/ tasks'[t].fstate # tasks[t].fstate

\* C7: flush(fromUrl, toUrl) deletes every World State whose URL is neither
\* fromUrl nor toUrl, puts each deleted state's number (when > 0) into the
\* pool and leaves the entries of fromUrl and toUrl; a flush(A, B) that
\* starts on the registry {A, B, C, D} ends with exactly {A, B}.
C7_Flush ==
    [][ \A t \in DOMAIN tasks :
          FlushStep(t) =>
            LET fromUrl == tasks'[t].ffrom
                toUrl == tasks'[t].fto
            IN /\ \A i \in DOMAIN worlds :
                    IF worlds[i].url \in {fromUrl, toUrl}
                    THEN has(worlds', worlds[i].url)
                    ELSE ~has(worlds', worlds[i].url) =>
                            (entries[worlds[i].id].worldno > 0 =>
                                entries[worlds[i].id].worldno \in alloc'.available)
               /\ tasks'[t].pc # "flush" =>
                    /\ \A i \in DOMAIN worlds' : worlds'[i].url \in {fromUrl, toUrl}
                    /\ (/\ tasks'[t].quiet
                        /\ \A t2 \in DOMAIN tasks : t2 > t => tasks[t2].pc = "idle"
                        /\ PreUrls(t)' = {"A", "B", "C", "D"}
                        /\ fromUrl = "A" /\ toUrl = "B")
                          => {worlds'[i].url : i \in DOMAIN worlds'} = {"A", "B"} ]_vars

\* C7 witness: the flush(A, B) of a crossing that started on the registry
\* {A, B, C, D} is over, C's and D's numbers are pooled
C7_Witness ==
    \E t \in DOMAIN tasks :
        /\ tasks[t].pc = "fetchRoot" /\ tasks[t].quiet /\ Latest(t)
        /\ PreUrls(t) = {"A", "B", "C", "D"}
        /\ tasks[t].ffrom = "A" /\ tasks[t].fto = "B"
        /\ Registered = {"A", "B"}
        /\ {PreSlot(t, "C"), PreSlot(t, "D")} \subseteq alloc.available

\* the portal loop of task t is over
LoopDone(t) == tasks[t].state # 0 /\ tasks[t].idx > Len(tasks[t].data)
MadeBy(t, j) == {l \in DOMAIN links : links[l].task = t /\ links[l].idx = j}
RECURSIVE BagSum(_)
BagSum(b) ==
    IF DOMAIN b = {} THEN 0
    ELSE LET x == CHOOSE y \in DOMAIN b : TRUE
         IN b[x] + BagSum([y \in DOMAIN b \ {x} |-> b[y]])

\* C8: in loadWorldAsRoot(url, cameFrom) a descriptor whose destination is
\* cameFrom produces no Portal Link, no allocated number and no pending
\* neighbour; every other descriptor produces exactly one Portal Link, one
\* allocated number and one pending neighbour.
C8_BackReference ==
    /\ \A l \in DOMAIN links : links[l].dest # tasks[links[l].task].fromroot
    /\ BagSum(allocCount) = Len(links)
    /\ \A t \in DOMAIN tasks :
          LoopDone(t) =>
             LET tk == tasks[t]
                 kept == {j \in DOMAIN tk.data : tk.data[j].url # tk.fromroot}
             IN /\ \A j \in DOMAIN tk.data \ kept : MadeBy(t, j) = {}
                /\ \A j \in kept :
                      /\ Cardinality(MadeBy(t, j)) = 1
                      /\ \A l \in MadeBy(t, j) :
                            /\ links[l].dest = tk.data[j].url
                            /\ Count(tk.destMeshes,
                                     << links[l].dest, links[l].worldno >>) = 1
                /\ Len(tk.destMeshes) = Cardinality(kept)
                /\ \A i \in DOMAIN tk.destMeshes : tk.destMeshes[i][1] # tk.fromroot

\* C8 witness: a crossing task has gone through a document with a portal
\* back to cameFrom and another portal
C8_Witness ==
    \E t \in DOMAIN tasks :
        /\ LoopDone(t) /\ tasks[t].fromroot # NULL
        /\ \E j \in DOMAIN tasks[t].data : tasks[t].data[j].url = tasks[t].fromroot
        /\ Len(tasks[t].destMeshes) = 1

\* C9: when a load reaches a URL that already has a World State, no new
\* number is allocated for that URL and no second renderable is loaded.
C9_NoReload ==
    /\ \A l \in DOMAIN links : ~links[l].resident
    /\ \A m \in DOMAIN meshes : ~meshes[m].second


\* the initial load of the A/B/C graph is over and nothing was crossed
ChainLoaded ==
    /\ docs = ChainGraph
    /\ tasks[1].pc = "done"
    /\ \A t \in DOMAIN tasks : t > 1 => tasks[t].pc = "idle"

\* C10 as claimed: on the graph A -> B, B -> A and C, loading A as root
\* ends with exactly A at number 0 and B at an allocated number > 0, one
\* Portal Link in A's list, a reciprocal link in B's list, and no C.
C10_Claimed ==
    ChainLoaded =>
        /\ Registered = {"A", "B"}
        /\ SlotOf("A") = 0
        /\ SlotOf("B") > 0 /\ SlotOf("B") \in DOMAIN allocCount
        /\ Len(LinksOf("A")) = 1
        /\ \E i \in DOMAIN LinksOf("B") : links[LinksOf("B")[i]].dest = "A"

\* C10 amended: the same load ends with exactly A at number 0 and B at an
\* allocated number > 0, one Portal Link (to B) in A's list, an empty link
\* list in B, and no C.
C10_RootLoad ==
    ChainLoaded =>
        /\ Registered = {"A", "B"}
        /\ SlotOf("A") = 0
        /\ SlotOf("B") > 0 /\ SlotOf("B") \in DOMAIN allocCount
        /\ Len(LinksOf("A")) = 1
        /\ links[LinksOf("A")[1]].dest = "B" /\ Crossable(links[LinksOf("A")[1]])
        /\ Len(LinksOf("B")) = 0
        /\ \A l \in DOMAIN links : links[l].owner = "A"

\* C10 witness: the load of the A/B/C graph is over, B is registered
C10_Witness == ChainLoaded /\ has(worlds, "B")

\* documents in which no portal names its own world and no two portals of
\* a world name the same destination
PlainDocs == docs \in {ChainGraph, StarGraph, TriGraph}

CrossedToNeighbour(t) ==
    /\ t > 1 /\ tasks[t].pc = "done" /\ Latest(t) /\ tasks[t].quiet
    /\ tasks[t].fromEntry
    /\ tasks[t].fromroot \in PreUrls(t) /\ PreSlot(t, tasks[t].fromroot) = 0
    /\ tasks[t].url # tasks[t].fromroot
    /\ tasks[t].url \in PreUrls(t) /\ PreSlot(t, tasks[t].url) > 0
    /\ \E j \in DOMAIN docs[tasks[t].url] : docs[tasks[t].url][j].url = tasks[t].fromroot

\* C3 as claimed: crossing from root A (number 0) into its neighbour B,
\* which has a portal back to A, yields B at number 0 and A at a freshly
\* allocated number different from 0.
C3_Claimed ==
    \A t \in DOMAIN tasks :
        CrossedToNeighbour(t) =>
            /\ SlotOf(tasks[t].url) = 0
            /\ SlotOf(tasks[t].fromroot) # 0

\* C3 amended: such a crossing leaves A at number 0 and B at a number > 0;
\* the portal back to A is skipped, so the crossing creates no Portal Link
\* and allocates no number for A.
C3_CrossKeepsSlots ==
    \A t \in DOMAIN tasks :
        CrossedToNeighbour(t) =>
            /\ has(worlds, tasks[t].url) /\ has(worlds, tasks[t].fromroot)
            /\ SlotOf(tasks[t].url) > 0
            /\ SlotOf(tasks[t].fromroot) = 0
            /\ \A l \in DOMAIN links :
                  links[l].task = t => links[l].dest # tasks[t].fromroot
            /\ \A i \in DOMAIN tasks[t].destMeshes :
                  tasks[t].destMeshes[i][1] # tasks[t].fromroot

\* C3 witness: such a crossing is over
C3_Witness == \E t \in DOMAIN tasks : CrossedToNeighbour(t)

\* crossing task t went from A into B on the A/B/C graph after the load of
\* A was over, and is over itself
CrossedAToB(t) ==
    /\ docs = ChainGraph
    /\ CrossedToNeighbour(t)
    /\ tasks[t].fromroot = "A" /\ tasks[t].url = "B"

\* C11: on the A/B/C graph, crossing from A into B evicts no World State:
\* A stays in the Registry keeping only its link to B, and C gets a World
\* State at a number that allocate() returned during that crossing.
C11_CrossEvictsNothing ==
    \A t \in DOMAIN tasks :
        CrossedAToB(t) =>
            /\ PreUrls(t) \subseteq Registered
            /\ relCount = << >>
            /\ \A u \in PreUrls(t) : SlotOf(u) = PreSlot(t, u)
            /\ has(worlds, "A")
            /\ Len(LinksOf("A")) = 1
            /\ LinksOf("A")[1] = tasks[t].link
            /\ links[tasks[t].link].dest = "B"
            /\ links[tasks[t].link].disposed = 0
            /\ has(worlds, "C")
            /\ "C" \notin PreUrls(t)
            /\ \A u \in PreUrls(t) : PreSlot(t, u) # SlotOf("C")
            /\ \E l \in DOMAIN links :
                  /\ links[l].task = t /\ links[l].dest = "C"
                  /\ links[l].worldno = SlotOf("C")
                  /\ links[l].worldno \in DOMAIN allocCount

\* C11 witness: such a crossing is over and C is registered
C11_Witness ==
    \E t \in DOMAIN tasks : CrossedAToB(t) /\ has(worlds, "C")

Last(s) == s[Len(s)]
\* the step is a call recorded in ops
Called(op) == Len(ops') = Len(ops) + 1 /\ Last(ops').op = op
UrlCount(ws, worldUrl) == Cardinality({i \in DOMAIN ws : ws[i].url = worldUrl})

\* C12: getOrCreate(url, document, slot) is idempotent: when an entry for
\* url exists it is returned with its document, renderable, link list and
\* number unchanged whatever document and number are passed, and a second
\* call creates no second entry.
C12_Idempotent ==
    [][ Called("getOrCreate") =>
          LET c == Last(ops') IN
          /\ UrlCount(worlds', c.url) = 1
          /\ c.state = get(worlds', c.url)
          /\ has(worlds, c.url) =>
                /\ c.state = get(worlds, c.url)
                /\ worlds' = worlds
                /\ entries' = entries
                /\ arrays' = arrays
                /\ entries'[c.state].data = entries[c.state].data
                /\ entries'[c.state].mesh = entries[c.state].mesh
                /\ entries'[c.state].portalPairs = entries[c.state].portalPairs
                /\ entries'[c.state].worldno = entries[c.state].worldno
          /\ ~has(worlds, c.url) =>
                /\ Len(worlds') = Len(worlds) + 1
                /\ entries'[c.state].data = c.data
                /\ entries'[c.state].worldno = c.worldno ]_vars

\* C12 witness: getOrCreate was called for a url whose entry holds another
\* document and another number than the ones passed
C12_Witness ==
    /\ ops # << >>
    /\ Last(ops).op = "getOrCreate" /\ Last(ops).existed
    /\ entries[Last(ops).state].data # Last(ops).data
    /\ entries[Last(ops).state].worldno # Last(ops).worldno
    /\ entries[Last(ops).state].mesh # 0
    /\ arrays[entries[Last(ops).state].portalPairs] # << >>
    /\ Len(worlds) = 1

\* C13: number 0 never enters the recycle pool and allocate() never
\* returns 0: release(0) changes neither the pool nor the counter, and
\* deleting a World State that holds number 0 leaves the allocator
\* unchanged.
C13_ZeroReserved ==
    [][ /\ 0 \notin alloc'.available
        /\ allocate(alloc').worldno # 0
        /\ \A s \in DOMAIN allocCount' : s # 0
        /\ release(alloc', 0) = alloc'
        /\ (Called("release") /\ Last(ops').worldno = 0) => alloc' = alloc
        /\ (Called("delete") /\ Last(ops').existed /\ Last(ops').worldno = 0) =>
              /\ alloc' = alloc
              /\ relCount' = relCount
              /\ ~has(worlds', Last(ops').url) ]_vars

\* C13 witness: after an allocate() and a release(0), a World State that
\* holds number 0 has just been deleted
C13_Witness ==
    /\ ops # << >>
    /\ Last(ops).op = "delete" /\ Last(ops).existed /\ Last(ops).worldno = 0
    /\ \E i \in DOMAIN ops : ops[i].op = "release" /\ ops[i].worldno = 0
    /\ alloc.nextWorldno > 1

\* the cell of a world number and the exact sum of a position and the
\* offset of that cell
Cell(worldno) ==
    << worldno % 16, (worldno \div 16) % 16, worldno \div 256 >>
ExactShift(position, worldno) ==
    << position[1] + Cell(worldno)[1] * 256 * Unit,
       position[2] + Cell(worldno)[3] * 256 * Unit,
       position[3] + Cell(worldno)[2] * 256 * Unit >>
\* every coordinate of the shifted position is a value of the number format
Representable(position, worldno) ==
    \A i \in 1..3 : RoundF(ExactShift(position, worldno)[i]) = ExactShift(position, worldno)[i]
IntegerCoords(position) == \A i \in 1..3 : position[i] % Unit = 0
\* both calls of a mapper-only run have been made
Mapped == Len(ops) = 3 /\ ops[3].op = "universeToWorld"
\* no call has changed a vector that existed before it
InputsKept ==
    \A i \in DOMAIN ops : \A j \in DOMAIN ops :
        i < j => \A v \in DOMAIN ops[i].V : ops[j].V[v] = ops[i].V[v]

\* C14 as claimed: for every position p and every world number s >= 0,
\* universeToWorld(worldToUniverse(p, s), s) equals p, and neither function
\* changes its input position.
C14_Claimed ==
    Mapped =>
        /\ ops[3].V[ops[3].a] = ops[1].V[1]
        /\ ops[3].V[ops[3].b] = ops[1].V[2]
        /\ InputsKept

\* C14 amended: for every position p and world number s >= 0 for which
\* each coordinate of p plus the offset of s's cell is a value of the
\* number format (every p with integer coordinates is one),
\* universeToWorld(worldToUniverse(p, s), s) equals p; neither function
\* changes its input position.
C14_RoundTrip ==
    /\ InputsKept
    /\ Len(ops) >= 2 =>
          /\ ops[2].V[ops[2].a] = worldToUniverse(ops[1].V[1], ops[1].s1)
          /\ IntegerCoords(ops[1].V[1]) => Representable(ops[1].V[1], ops[1].s1)
    /\ Mapped =>
          /\ Representable(ops[1].V[1], ops[1].s1) => ops[3].V[ops[3].a] = ops[1].V[1]
          /\ Representable(ops[1].V[2], ops[1].s2) => ops[3].V[ops[3].b] = ops[1].V[2]

\* C14 witness: a position with a non-zero integer coordinate on each axis
\* of the shift has gone to the universe and back with a world number
\* whose cell is off the origin on every axis
C14_Witness ==
    /\ Mapped
    /\ ops[1].s1 = 273
    /\ ops[1].V[1] = << 3 * Unit, 0, 2 * Unit >>
    /\ ops[2].V[ops[2].a] # ops[1].V[1]
    /\ ops[3].V[ops[3].a] = ops[1].V[1]

\* p and q fit in one cell: they differ by less than the cell size on
\* every axis
WithinOneCell(p, q) ==
    /\ Abs(p[1] - q[1]) < xGridSize * Unit
    /\ Abs(p[2] - q[2]) < yGridSize * Unit
    /\ Abs(p[3] - q[3]) < zGridSize * Unit
\* worldToUniverse has been applied to p with s1 and q with s2, s1 # s2,
\* p and q within one cell's extents
TwoWorldsMapped ==
    /\ Len(ops) >= 2
    /\ ops[1].s1 # ops[1].s2
    /\ WithinOneCell(ops[1].V[1], ops[1].V[2])

\* C15 as claimed: for any two distinct world numbers s1 and s2 and any
\* local positions p and q within one cell's extents (256 per axis),
\* worldToUniverse(p, s1) and worldToUniverse(q, s2) are different points:
\* the map from a world number to its cell is injective.
C15_Claimed ==
    TwoWorldsMapped =>
        /\ ops[2].V[ops[2].a] # ops[2].V[ops[2].b]
        /\ Cell(ops[1].s1) # Cell(ops[1].s2)

\* C15 amended: the map from a world number to its cell is injective, and
\* for distinct s1, s2 and p, q within one cell's extents,
\* worldToUniverse(p, s1) and worldToUniverse(q, s2) are different points
\* whenever every coordinate of p and q plus its cell offset is a value of
\* the number format (as it is for integer coordinates).
C15_Disjoint ==
    TwoWorldsMapped =>
        /\ Cell(ops[1].s1) # Cell(ops[1].s2)
        /\ (/\ Representable(ops[1].V[1], ops[1].s1)
            /\ Representable(ops[1].V[2], ops[1].s2))
              => ops[2].V[ops[2].a] # ops[2].V[ops[2].b]
        /\ (IntegerCoords(ops[1].V[1]) /\ IntegerCoords(ops[1].V[2]))
              => ops[2].V[ops[2].a] # ops[2].V[ops[2].b]

\* C15 witness: two positions a cell apart on no axis but far apart in the
\* cell have been mapped with the world numbers of neighbouring cells
C15_Witness ==
    /\ TwoWorldsMapped
    /\ ops[1].s1 = 1 /\ ops[1].s2 = 2
    /\ ops[1].V[1] = << 3 * Unit, 0, 0 >>
    /\ ops[1].V[2] = << 0 - Unit, 0, 0 >>
    /\ ops[2].V[ops[2].a][1] < ops[2].V[ops[2].b][1]

\* C16: a crossing callback can never fire against a Portal Link whose
\* destination World State does not exist: from the moment a link's
\* callback is registered, the Registry holds a World State for the link's
\* destination.
C16_DestinationExists ==
    \A l \in DOMAIN links :
        Crossable(links[l]) => has(worlds, links[l].dest)

\* task t takes the result of a load in this step: the root splat, or the
\* document and splat of the neighbour it is fetching
LoadCompletes(t) ==
    \/ tasks[t].pc = "rootMesh" /\ tasks'[t].pc # "rootMesh" /\ tasks'[t].pc # "failed"
    \/ /\ tasks[t].pc = "adjFetch"
       /\ tasks'[t].pc # "failed"
       /\ tasks'[t].pc # "adjFetch" \/ tasks'[t].adj # tasks[t].adj
\* the url of the load task t is waiting for
LoadingUrl(t) ==
    IF tasks[t].pc = "rootMesh" THEN tasks[t].url
    ELSE tasks[t].destMeshes[tasks[t].adj][1]
\* a crossing that started after task t has flushed the Registry and did
\* not spare worldUrl
FlushedSince(t, worldUrl) ==
    \E t2 \in DOMAIN tasks :
        /\ t2 > t
        /\ tasks[t2].pc \notin {"idle", "flush"}
        /\ worldUrl # tasks[t2].ffrom /\ worldUrl # tasks[t2].fto

C18_StaysInGoodRoot ==
    \A t \in DOMAIN tasks :
        (/\ t > 1 /\ Latest(t)
         /\ tasks[t].pc = "failed" /\ tasks[t].state = 0)
            => /\ currentWorldUrl = tasks[t].fromroot
               /\ has(worlds, tasks[t].fromroot)

\* C19: if fetching one neighbour's document or asset fails during
\* loadWorldAsRoot, only that neighbour is left unloaded: every other
\* pending neighbour of the same root is still fetched, loaded and given a
\* World State.
C19_OnlyThatBranch ==
    \A t \in DOMAIN tasks :
        (/\ Quiescent /\ Latest(t)
         /\ tasks[t].pc = "failed" /\ tasks[t].adj > 0)
            => \A i \in DOMAIN tasks[t].destMeshes :
                  tasks[t].destMeshes[i][1] # tasks[t].destMeshes[tasks[t].adj][1]
                      => has(worlds, tasks[t].destMeshes[i][1])

\* crossing task t is the last crossing; it started with no load in
\* flight, through the entry side of a link whose destination had no World
\* State because the load that made the link had failed
CrossedDangling(t) ==
    /\ t > 1 /\ Latest(t)
    /\ tasks[t].quiet
    /\ tasks[t].fromEntry
    /\ links[tasks[t].link].dest \notin PreUrls(t)
    /\ tasks[links[tasks[t].link].task].pc = "failed"

Fetched(t) ==
    IF tasks[t].state = 0 THEN 0
    ELSE IF tasks[t].pc = "done" THEN 1 + Len(tasks[t].destMeshes)
    ELSE IF tasks[t].adj > 0 THEN tasks[t].adj
    ELSE 1
\* portals of the root of task t that do not lead back to where it came from
Forward(t) ==
    {j \in DOMAIN docs[tasks[t].url] : docs[tasks[t].url][j].url # tasks[t].fromroot}

\* task t is inside loadWorldAsRoot
InCall(t) == tasks[t].pc \in {"fetchRoot", "label", "rootMesh", "adjFetch"}
\* an upper bound of the awaits loadWorldAsRoot of task t still has to
\* pass, computed from the root's document
Remaining(t) ==
    LET n == Len(docs[tasks[t].url])
    IN CASE tasks[t].pc = "fetchRoot" -> 2 * n + 3
         [] tasks[t].pc = "label" -> (n - tasks[t].idx + 1) + 1 + n
         [] tasks[t].pc = "rootMesh" -> 1 + n
         [] tasks[t].pc = "adjFetch" -> Len(tasks[t].destMeshes) - tasks[t].adj + 1
         [] OTHER -> 0

\* C21: loadWorldAsRoot with its neighbour expansion terminates on every
\* finite portal graph, including cyclic ones: every await it passes
\* lowers a bound computed from the root's document; the number of
\* documents one call fetches is bounded by the graph (the root's and one
\* per portal of the root that does not lead back).
C21_Terminates ==
    [][ \A t \in DOMAIN tasks :
          /\ (InCall(t) /\ tasks'[t] # tasks[t]) =>
                /\ tasks'[t].url = tasks[t].url
                /\ tasks'[t].pc \in {"label", "rootMesh", "adjFetch", "done", "failed"}
                /\ Remaining(t)' >= 0
                /\ Remaining(t)' < Remaining(t)
          /\ tasks'[t].state # 0 =>
                /\ Fetched(t)' <= 1 + Cardinality(Forward(t)')
                /\ tasks'[t].pc = "done" =>
                      Fetched(t)' = 1 + Cardinality(Forward(t)') ]_vars

\* C21 witness: the load of a world with a portal to itself and the load
\* of a world with a portal back to the world it was entered from are over
C21_Witness ==
    \/ docs = SelfGraph /\ tasks[1].pc = "done"
    \/ /\ docs = ChainGraph /\ tasks[2].pc = "done"
       /\ tasks[2].url = "B" /\ tasks[2].fromroot = "A"

\* C22: over every interleaving of crossings and load completions,
\* dispose() is called at most once on each Portal Link.
C22_DisposeOnce ==
    \A l \in DOMAIN links : links[l].disposed <= 1

\* the World States in the Registry whose link list holds link l
ListedIn(l) ==
    {i \in DOMAIN worlds : \E k \in DOMAIN arrays[entries[worlds[i].id].portalPairs] :
                              arrays[entries[worlds[i].id].portalPairs][k] = l}

\* C23: a Portal Link is disposed when and only when its owning World
\* State is deleted or a crossing supersedes it: at every moment each
\* undisposed link with a crossing callback is in the link list of its
\* owner's World State and that World State is in the Registry.
C23_LinkHasOwner ==
    \A l \in DOMAIN links :
        Crossable(links[l]) =>
            \E i \in ListedIn(l) : worlds[i].url = links[l].owner

\* the step is the crossing callback of task t
Crossing(t) == tasks[t].pc = "idle" /\ tasks'[t].pc # "idle"
\* in this step the flush of task t ends and its loadWorldAsRoot starts
FlushEnds(t) == tasks[t].pc \in {"idle", "flush"} /\ tasks'[t].pc = "fetchRoot"

\* C24: on a crossing of a link owned by world W with destination D, the
\* new root is D and the old root W when entered from the entry side, and
\* the new root is W and the old root D when entered from the exit side;
\* the current root URL becomes the new root, and flush(oldRoot, newRoot)
\* finishes before loadWorldAsRoot(newRoot, oldRoot) starts.
C24_CrossOrder ==
    [][ \A t \in DOMAIN tasks :
          /\ Crossing(t) =>
                LET lk == links[tasks'[t].link]
                    newRoot == IF tasks'[t].fromEntry THEN lk.dest ELSE lk.owner
                    oldRoot == IF tasks'[t].fromEntry THEN lk.owner ELSE lk.dest
                IN /\ currentWorldUrl' = newRoot
                   /\ tasks'[t].ffrom = oldRoot /\ tasks'[t].fto = newRoot
                   /\ tasks'[t].url = newRoot /\ tasks'[t].fromroot = oldRoot
                   /\ tasks'[t].pc \in {"flush", "fetchRoot"}
          /\ tasks'[t].pc = "flush" =>
                /\ tasks'[t].state = 0
                /\ tasks'[t].data = << >>
          /\ FlushEnds(t) =>
                /\ tasks'[t].url = tasks'[t].fto
                /\ tasks'[t].fromroot = tasks'[t].ffrom
                /\ tasks'[t].state = 0
                /\ \A i \in DOMAIN worlds' :
                      worlds'[i].url \in {tasks'[t].ffrom, tasks'[t].fto}
          /\ (tasks[t].pc = "fetchRoot" /\ tasks'[t].pc \notin {"fetchRoot", "failed"}) =>
                /\ entries'[tasks'[t].state].url = tasks[t].url
                /\ t > 1 => tasks[t].url = tasks[t].fto /\ tasks[t].fromroot = tasks[t].ffrom
        ]_vars

\* C24 witness: a crossing entered from the exit side of a link and a
\* crossing entered from the entry side have both flushed and fetched
\* their new root
C24_Witness ==
    \E t, t2 \in DOMAIN tasks :
        /\ t > 1 /\ tasks[t].state # 0 /\ ~tasks[t].fromEntry
        /\ tasks[t].url = links[tasks[t].link].owner
        /\ t2 > 1 /\ tasks[t2].state # 0 /\ tasks[t2].fromEntry
        /\ tasks[t2].url = links[tasks[t2].link].dest

\* what the Registry held for worldUrl when crossing task t started
PreOf(pre, worldUrl) == pre[CHOOSE i \in DOMAIN pre : pre[i].url = worldUrl]
Pre(t, worldUrl) == PreOf(tasks[t].pre, worldUrl)
\* the entry of worldUrl in the Registry ws with heap es
EntryOf(ws, es, worldUrl) == es[get(ws, worldUrl)]
\* crossing task t started with no load in flight and no crossing has
\* started since
Alone(t) == t > 1 /\ tasks[t].quiet /\ Latest(t)
KeptLinks(list, toUrl) == SelectSeq(list, LAMBDA l : links[l].dest = toUrl)

\* C25: after flush(fromUrl, toUrl), the link list of fromUrl's World State
\* holds exactly those of its earlier links whose destination is toUrl,
\* none of them disposed, and every earlier link with another destination
\* has been disposed; fromUrl's number and renderable are unchanged.
C25_FlushFrom ==
    [][ \A t \in DOMAIN tasks :
          (FlushEnds(t) /\ Alone(t)' /\ tasks'[t].ffrom \in PreUrls(t)') =>
              LET fromUrl == tasks'[t].ffrom
                  toUrl == tasks'[t].fto
                  was == PreOf(tasks'[t].pre, fromUrl)
                  now == EntryOf(worlds', entries', fromUrl)
              IN /\ has(worlds', fromUrl)
                 /\ arrays'[now.portalPairs] = KeptLinks(was.list, toUrl)
                 /\ \A k \in DOMAIN was.list :
                       IF links[was.list[k]].dest = toUrl
                       THEN links'[was.list[k]].disposed = 0
                       ELSE links'[was.list[k]].disposed > 0
                 /\ now.worldno = was.worldno
                 /\ now.mesh = was.mesh ]_vars

\* C25 witness: a flush that started alone on a list of several links has
\* ended and one link is left
C25_Witness ==
    \E t \in DOMAIN tasks :
        /\ Alone(t) /\ tasks[t].pc = "fetchRoot"
        /\ tasks[t].ffrom \in PreUrls(t)
        /\ Len(Pre(t, tasks[t].ffrom).list) >= 2
        /\ Len(LinksOf(tasks[t].ffrom)) = 1
        /\ Pre(t, tasks[t].ffrom).mesh # 0

C27_NoDisposedListed ==
    \A i \in DOMAIN worlds :
        LET list == arrays[entries[worlds[i].id].portalPairs]
        IN \A k \in DOMAIN list : links[list[k]].disposed = 0

\* C28: every World State in the Registry still has the world number it
\* was created with: the number never changes between creation and deletion.
C28_SlotFixed ==
    \A i \in DOMAIN worlds :
        entries[worlds[i].id].worldno = entries[worlds[i].id].born

\* C29: every renderable attached to the scene is the renderable handle of
\* a World State in the Registry (no orphan renderable stays in the scene).
C29_NoOrphanMesh ==
    \A m \in scene : \E i \in DOMAIN worlds : entries[worlds[i].id].mesh = m

\* the destinations of the portals in the document of worldUrl
Destinations(worldUrl) == {docs[worldUrl][j].url : j \in DOMAIN docs[worldUrl]}
\* crossing task t started with no load in flight, was not overtaken, is
\* over, and no fetch has failed
CrossedAllLoaded(t) == Alone(t) /\ tasks[t].pc = "done" /\ fails = 0

\* C30: after a crossing from X into Y has completed with every fetch
\* successful, the Registry holds exactly X, Y and the destinations of Y's
\* portals; every other world has been evicted.
C30_OneHop ==
    \A t \in DOMAIN tasks :
        CrossedAllLoaded(t) =>
            Registered = {tasks[t].fromroot, tasks[t].url}
                            \cup Destinations(tasks[t].url)

\* C30 witness: such a crossing is over and it evicted a World State that
\* was in the Registry when it started
C30_Witness ==
    \E t \in DOMAIN tasks :
        /\ CrossedAllLoaded(t)
        /\ PreUrls(t) \ Registered # {}

====
